---- MODULE Spec2Model ----
(***************************************************************************)
(* Model of the forecasting / anomaly-detection backend                    *)
(*   backend/app/services/data_processing.py                               *)
(*   backend/app/services/statsforecast_service.py                         *)
(*   backend/app/routers/{forecast,anomaly}.py                             *)
(*                                                                         *)
(* Representation of Python values:                                        *)
(*  - a date string is a record [fmt, day, sec]: its spelling (fmt), the   *)
(*    calendar day it names (days since 2024-01-01) and the time of day;   *)
(*  - a pandas Timestamp is [nat, t]: NaT, or t seconds since 2024-01-01;  *)
(*  - a float is [kind, v]: kind "float" with the integer v, or "nan",     *)
(*    "inf", "-inf"; kind "str" is a non-numeric Python object;            *)
(*  - Optional[int] is a sequence: << >> for None, <<n>> for n;            *)
(*  - real numbers built from the rolling statistics are kept exact:       *)
(*    a mean is the pair sum/count, a standard deviation is kept by its    *)
(*    square (the variance, a rational), and a bound mean +- z*std is the  *)
(*    triple (mean, variance, confidence level).                           *)
(***************************************************************************)
EXTENDS Integers, Sequences, FiniteSets, TLC

VARIABLES
    request,    \* the request being served (ForecastRequest / AnomalyRequest / function arguments)
    pc,         \* position of the caller: which call is pending or finished
    frame,      \* the locals the service method had assigned when it returned or raised
    outcome,    \* what the call produced: a returned value or a raised exception
    http,       \* the HTTP status the router answered with (0: nothing answered yet)
    run,        \* 1 for the first submission of the request, 2 for its repetition
    prev        \* the outcome of the first submission, kept by the caller for comparison

vars == <<request, pc, frame, outcome, http, run, prev>>

(***************************************************************************)
(* Bounds of the model                                                     *)
(***************************************************************************)
MaxValLen == 3        \* longest candidate series given to validate_data alone
MaxGaps == 3          \* most date gaps of a frame given to infer_frequency alone
MaxLen == 5           \* longest series whose values are enumerated exhaustively
MaxLong == 10         \* longest single-spike series
MaxConst == 25        \* longest constant series
MaxElapsed == 1       \* largest wall-clock reading difference (ms) of one call
MaxDev == 18          \* largest deviation handed to _determine_severity alone, in quarters
MaxH == 2             \* largest forecast horizon

(***************************************************************************)
(* Generic helpers                                                         *)
(***************************************************************************)
Range(s) == { s[i] : i \in 1..Len(s) }

Min2(a, b) == IF a < b THEN a ELSE b

Max2(a, b) == IF a > b THEN a ELSE b

Abs(x) == IF x < 0 THEN -x ELSE x

RECURSIVE SeqsUpTo(_, _)
\* all sequences over S of length 0..n
SeqsUpTo(S, n) ==
    IF n = 0 THEN { << >> }
    ELSE LET shorter == SeqsUpTo(S, n - 1)
         IN  shorter \cup { Append(s, x) : s \in { t \in shorter : Len(t) = n - 1 }, x \in S }

RECURSIVE RatGt(_, _, _, _)
\* a/b > c/d for a, c >= 0 and b, d > 0, by the Euclidean algorithm (no product is formed)
RatGt(a, b, c, d) ==
    LET q1 == a \div b
        q2 == c \div d
        r1 == a % b
        r2 == c % d
    IN  IF q1 # q2 THEN q1 > q2
        ELSE IF r1 = 0 THEN FALSE
        ELSE IF r2 = 0 THEN TRUE
        ELSE RatGt(d, r2, b, r1)

(***************************************************************************)
(* Python / pandas values                                                  *)
(***************************************************************************)
None == << >>

Some(n) == << n >>

NaT == [nat |-> TRUE, t |-> 0]

Timestamp(t) == [nat |-> FALSE, t |-> t]

Float(v) == [kind |-> "float", v |-> v]

SecondsPerDay == 86400

IsoDate(d) == [fmt |-> "iso_date", day |-> d, sec |-> 0]

IsoDateTime(d, s) == [fmt |-> "iso_datetime", day |-> d, sec |-> s]

EmptyDate == [fmt |-> "empty", day |-> 0, sec |-> 0]

GarbageDate == [fmt |-> "garbage", day |-> 0, sec |-> 0]

\* pd.to_datetime(str) raises for text that is no date
to_datetime_raises(date) == date.fmt = "garbage"

\* pd.to_datetime(str): the empty string converts to NaT without an error
to_datetime(date) ==
    IF date.fmt = "empty" THEN NaT
    ELSE Timestamp(date.day * SecondsPerDay + date.sec)

\* Timestamp.strftime('%Y-%m-%d') raises ValueError on NaT
strftime_raises(ts) == ts.nat

\* Timestamp.strftime('%Y-%m-%d'): the calendar day only
strftime(ts) == IsoDate(ts.t \div SecondsPerDay)

\* math.isnan / math.isinf
isnan(value) == value.kind = "nan"

isinf(value) == value.kind \in {"inf", "-inf"}

\* isinstance(value, (int, float))
isinstance_number(value) == value.kind \in {"float", "nan", "inf", "-inf"}

(***************************************************************************)
(* data_processing.py                                                      *)
(***************************************************************************)
\* sort_values('ds') orders rows ascending by timestamp, NaT last
DsBefore(a, b) == ~a.ds.nat /\ (b.ds.nat \/ a.ds.t < b.ds.t)

RECURSIVE InsertRow(_, _)
InsertRow(sorted, row) ==
    IF sorted = << >> THEN << row >>
    ELSE IF DsBefore(row, sorted[Len(sorted)])
         THEN Append(InsertRow(SubSeq(sorted, 1, Len(sorted) - 1), row), sorted[Len(sorted)])
         ELSE Append(sorted, row)

RECURSIVE sort_values(_)
sort_values(rows) ==
    IF rows = << >> THEN << >>
    ELSE InsertRow(sort_values(SubSeq(rows, 1, Len(rows) - 1)), rows[Len(rows)])

\* prepare_dataframe: one row (ds, y) per point, sorted by date, index reset
prepare_dataframe(data) ==
    sort_values([i \in 1..Len(data) |-> [ds |-> to_datetime(data[i].date), y |-> data[i].value]])

RECURSIVE InsertInt(_, _)
InsertInt(sorted, x) ==
    IF sorted = << >> THEN << x >>
    ELSE IF x < sorted[Len(sorted)]
         THEN Append(InsertInt(SubSeq(sorted, 1, Len(sorted) - 1), x), sorted[Len(sorted)])
         ELSE Append(sorted, x)

RECURSIVE SortInts(_)
SortInts(xs) ==
    IF xs = << >> THEN << >>
    ELSE InsertInt(SortInts(SubSeq(xs, 1, Len(xs) - 1)), xs[Len(xs)])

\* df['ds'].diff().dropna(): the gaps between consecutive rows, in seconds;
\* a gap next to a NaT is NaT and is dropped
time_diffs(df) ==
    LET defined == { i \in 2..Len(df) : ~df[i].ds.nat /\ ~df[i - 1].ds.nat }
        RECURSIVE Collect(_)
        Collect(i) ==
            IF i > Len(df) THEN << >>
            ELSE IF i \in defined THEN << df[i].ds.t - df[i - 1].ds.t >> \o Collect(i + 1)
            ELSE Collect(i + 1)
    IN  Collect(2)

\* variant of median: the upper middle gap of an even count instead of the mean of
\* the two middle gaps
median_upper(diffs) ==
    LET sorted == SortInts(diffs)
    IN  2 * sorted[Len(sorted) \div 2 + 1]

\* Series.median() of the gaps, in HALF seconds (the mean of the two middle gaps
\* of an even count is exact in this unit); requires at least one gap
median(diffs) ==
    LET sorted == SortInts(diffs)
        n == Len(sorted)
    IN  IF n % 2 = 1 THEN 2 * sorted[(n + 1) \div 2]
        ELSE sorted[n \div 2] + sorted[n \div 2 + 1]

\* infer_frequency: the frequency code of a frame
infer_frequency(df) ==
    IF Len(df) < 2 THEN "D"
    ELSE LET diffs == time_diffs(df)
         IN  IF diffs = << >>
             THEN "Y"    \* the median is NaT: days and seconds are NaN and every comparison is False
             ELSE LET median_diff == median(diffs)
                      days == median_diff \div (2 * SecondsPerDay)    \* Timedelta.days
                  IN  IF median_diff < 2 * 3600 THEN "T"              \* seconds < 3600
                      ELSE IF median_diff < 2 * SecondsPerDay THEN "H"  \* seconds < 86400
                      ELSE IF days <= 1 THEN "D"
                      ELSE IF days <= 8 THEN "W"
                      ELSE IF days <= 32 THEN "M"
                      ELSE IF days <= 100 THEN "Q"
                      ELSE "Y"

\* auto_detect_season_length: freq_to_season.get(freq, 7)
auto_detect_season_length(df, freq) ==
    CASE freq = "H" -> 24
      [] freq = "D" -> 7
      [] freq = "W" -> 52
      [] freq = "M" -> 12
      [] freq = "Q" -> 4
      [] freq = "Y" -> 1
      [] OTHER -> 7

\* a Python exception / a normal return, as the result of a call
Raise(exc, origin) == [raised |-> TRUE, exc |-> exc, origin |-> origin]

Returned == [raised |-> FALSE, exc |-> "", origin |-> ""]

\* validate_data: returns None or raises ValueError
validate_data(data) ==
    IF Len(data) < 2 THEN Raise("ValueError", "validate_data")
    ELSE IF \E i \in 1..Len(data) :
                \/ ~isinstance_number(data[i].value)
                \/ isnan(data[i].value)
                \/ isinf(data[i].value)
         THEN Raise("ValueError", "validate_data")
    ELSE IF \E i \in 1..Len(data) : to_datetime_raises(data[i].date)
         THEN Raise("ValueError", "validate_data")
    ELSE LET dates == [i \in 1..Len(data) |-> to_datetime(data[i].date)]
         IN  IF Len(dates) # Cardinality(Range(dates))
             THEN Raise("ValueError", "validate_data")
             ELSE Returned

(***************************************************************************)
(* statsforecast_service.py: rolling statistics and exact comparisons      *)
(***************************************************************************)
\* SENSITIVITY_MAP
SENSITIVITY_MAP(sensitivity) ==
    CASE sensitivity = "low" -> 90
      [] sensitivity = "medium" -> 95
      [] sensitivity = "high" -> 99

Z2Scale == 100000000

\* stats.norm.ppf((1 + confidence_level / 100) / 2), squared, times Z2Scale and
\* rounded down: z = 1.6448536..., 1.9599639..., 2.5758293...
z_score_sq(confidence_level) ==
    CASE confidence_level = 90 -> 270554345
      [] confidence_level = 95 -> 384145882
      [] confidence_level = 99 -> 663489660

\* variant of window_size: one season in place of two
window_size_one_season(season_length, n) ==
    LET window == Min2(season_length, n)
    IN  IF window < 3 THEN n ELSE window

\* variant of window_size: the window of fewer than 3 rows is kept
window_size_no_fallback(season_length, n) == Min2(season_length * 2, n)

\* window = min(season_length * 2, len(values)); if window < 3: window = len(values)
window_size(season_length, n) ==
    LET window == Min2(season_length * 2, n)
    IN  IF window < 3 THEN n ELSE window

\* the rows a centered fixed window of size w covers at row i of n (pandas'
\* FixedWindowIndexer: offset = (w - 1) // 2, end = i + offset, start = end - w + 1, clipped)
window_lo(i, w, n) == Max2(1, i + ((w - 1) \div 2) - w + 1)

\* variant of window_hi: the window ends before its own row
window_hi_before_own_row(i, w, n) == Min2(n, i - 1)

\* variant of window_hi: the window ends at its own row
window_hi_own_row(i, w, n) == Min2(n, i)

window_hi(i, w, n) == Min2(n, i + ((w - 1) \div 2))

RECURSIVE SumOver(_, _, _)
SumOver(xs, lo, hi) == IF lo > hi THEN 0 ELSE xs[lo] + SumOver(xs, lo + 1, hi)

\* the window's count, sum and sum of squares at row i
rolling_window(values, w, i) ==
    LET lo == window_lo(i, w, Len(values))
        hi == window_hi(i, w, Len(values))
    IN  [nobs |-> hi - lo + 1,
         sum_x |-> SumOver(values, lo, hi),
         sum_xx |-> SumOver([k \in 1..Len(values) |-> values[k] * values[k]], lo, hi)]

\* Series.rolling(window, center=True, min_periods=1).mean(): sum / count
rolling_mean(win) == [isna |-> win.nobs < 1, num |-> win.sum_x, den |-> win.nobs]

\* Series.rolling(window, center=True, min_periods=1).std(): NaN on fewer than two
\* samples (ddof = 1); kept as its square n*sum_xx - sum_x^2 over n*(n-1)
rolling_std(win) ==
    [isna |-> win.nobs < 2,
     var_num |-> IF win.nobs < 2 THEN 0 ELSE win.nobs * win.sum_xx - win.sum_x * win.sum_x,
     var_den |-> IF win.nobs < 2 THEN 1 ELSE win.nobs * (win.nobs - 1)]

\* rolling_mean + sign * z_score * rolling_std, NaN when the std is NaN
bound(mean, std, confidence_level, sign) ==
    [isna |-> mean.isna \/ std.isna, mean |-> mean, std |-> std,
     level |-> confidence_level, sign |-> sign]

\* pd.isna
isna(x) == x.isna

\* |value - mean| against z * std: 1 greater, 0 equal, -1 less.
\* With D = n*value - sum and V = n*sum_xx - sum^2 this is D^2 (n-1) against z^2 V n.
spread_cmp(value, b) ==
    LET n == b.mean.den
        D == n * value - b.mean.num
        A == D * D * (n - 1)
        B == b.std.var_num * n
    IN  IF B = 0 THEN (IF A > 0 THEN 1 ELSE 0)
        ELSE IF RatGt(A, B, z_score_sq(b.level), Z2Scale) THEN 1 ELSE -1

\* the sign of value - b for a defined bound b
bound_cmp(value, b) ==
    LET D == b.mean.den * value - b.mean.num
        c == spread_cmp(value, b)
    IN  IF b.sign = 1
        THEN (IF D > 0 THEN c ELSE IF D = 0 /\ b.std.var_num = 0 THEN 0 ELSE -1)
        ELSE (IF D < 0 THEN -c ELSE IF D = 0 /\ b.std.var_num = 0 THEN 0 ELSE 1)

\* variant of outside_bounds: the comparison with the lower bound is missing
outside_bounds_upper_only(actual_value, lower_bound, upper_bound) ==
    bound_cmp(actual_value, upper_bound) > 0

\* variant of outside_bounds: <= and >= in place of < and >
outside_bounds_inclusive(actual_value, lower_bound, upper_bound) ==
    bound_cmp(actual_value, lower_bound) <= 0 \/ bound_cmp(actual_value, upper_bound) >= 0

\* actual_value < lower_bound or actual_value > upper_bound
outside_bounds(actual_value, lower_bound, upper_bound) ==
    bound_cmp(actual_value, lower_bound) < 0 \/ bound_cmp(actual_value, upper_bound) > 0

\* range_size = upper_bound - lower_bound = 2 z std; range_size > 0
range_positive(lower_bound, upper_bound) == upper_bound.std.var_num > 0

\* a deviation is the real sqrt(sq_num / sq_den) / z(level), with z = 1 for level 0
ZeroDeviation == [sq_num |-> 0, sq_den |-> 1, level |-> 0]

\* abs(actual_value - mid_point) / (range_size / 2) if range_size > 0 else 0
deviation_of(actual_value, lower_bound, upper_bound) ==
    IF range_positive(lower_bound, upper_bound)
    THEN LET n == upper_bound.mean.den
             D == n * actual_value - upper_bound.mean.num
         IN  [sq_num |-> D * D * (n - 1), sq_den |-> upper_bound.std.var_num * n,
              level |-> upper_bound.level]
    ELSE ZeroDeviation

\* variant of deviation_gt: deviation >= p/q
deviation_ge(deviation, p, q) ==
    IF deviation.level = 0
    THEN deviation.sq_num * q * q >= deviation.sq_den * p * p
    ELSE RatGt(deviation.sq_num * q * q, deviation.sq_den * p * p,
               z_score_sq(deviation.level), Z2Scale)

\* deviation > p/q
deviation_gt(deviation, p, q) ==
    IF deviation.level = 0
    THEN deviation.sq_num * q * q > deviation.sq_den * p * p
    ELSE RatGt(deviation.sq_num * q * q, deviation.sq_den * p * p,
               z_score_sq(deviation.level), Z2Scale)

\* _determine_severity
determine_severity(deviation, sensitivity) ==
    IF sensitivity = "low"
    THEN (IF deviation_gt(deviation, 3, 1) THEN "high"
          ELSE IF deviation_gt(deviation, 2, 1) THEN "medium" ELSE "low")
    ELSE IF sensitivity = "medium"
    THEN (IF deviation_gt(deviation, 2, 1) THEN "high"
          ELSE IF deviation_gt(deviation, 3, 2) THEN "medium" ELSE "low")
    ELSE (IF deviation_gt(deviation, 3, 2) THEN "high"
          ELSE IF deviation_gt(deviation, 1, 1) THEN "medium" ELSE "low")

\* variant of select_model: the fallback branch dispatches AutoARIMA
select_model_fallback_arima(model_type, season_length) ==
    IF model_type = "ets"
    THEN [model |-> [cls |-> "AutoETS", season_length |-> season_length], model_name |-> "AutoETS"]
    ELSE IF model_type = "theta"
    THEN [model |-> [cls |-> "AutoTheta", season_length |-> season_length], model_name |-> "AutoTheta"]
    ELSE [model |-> [cls |-> "AutoARIMA", season_length |-> season_length], model_name |-> "AutoARIMA"]

\* _select_model: the model object (its class and its only parameter) and its name
select_model(model_type, season_length) ==
    IF model_type = "arima" \/ model_type = "auto"
    THEN [model |-> [cls |-> "AutoARIMA", season_length |-> season_length], model_name |-> "AutoARIMA"]
    ELSE IF model_type = "ets"
    THEN [model |-> [cls |-> "AutoETS", season_length |-> season_length], model_name |-> "AutoETS"]
    ELSE IF model_type = "theta"
    THEN [model |-> [cls |-> "AutoTheta", season_length |-> season_length], model_name |-> "AutoTheta"]
    ELSE [model |-> [cls |-> "AutoETS", season_length |-> season_length], model_name |-> "AutoETS"]

(***************************************************************************)
(* statsforecast_service.py: the two service methods                       *)
(***************************************************************************)
\* the locals of a service method before its first statement
EmptyFrame ==
    [calls |-> << >>, df |-> << >>, freq |-> "", season_length |-> None,
     model |-> None, model_name |-> "", window |-> None,
     lower |-> << >>, upper |-> << >>, forecasts_df |-> None]

NoOutcome == [raised |-> FALSE, exc |-> "", origin |-> "", response |-> None]

\* a call that raised: no response
Raised(err) == [raised |-> TRUE, exc |-> err.exc, origin |-> err.origin, response |-> None]

\* a call that returned a response
Return(response) == [raised |-> FALSE, exc |-> "", origin |-> "", response |-> Some(response)]

\* variant of season_length_of: the caller's value is ignored
season_length_of_auto(req, df, freq) == auto_detect_season_length(df, freq)

\* season_length = request.seasonLength; if None: auto_detect_season_length(df, freq)
season_length_of(req, df, freq) ==
    IF req.seasonLength = None THEN auto_detect_season_length(df, freq)
    ELSE req.seasonLength[1]

\* the callees of the "Prepare data" and "Determine season length" statements
prepare_calls(req) ==
    << "validate_data", "prepare_dataframe", "infer_frequency" >>
    \o (IF req.seasonLength = None THEN << "auto_detect_season_length" >> ELSE << >>)

\* variant of initial_anomalies: one list shared by all calls, so a call starts
\* from the anomalies of the call before it
initial_anomalies_shared ==
    IF prev.response = None THEN << >> ELSE prev.response[1].anomalies

\* anomalies = [] : a fresh list in every call
initial_anomalies == << >>

\* the loop over result_df.iterrows(), from row i on, with the lists built so far
RECURSIVE scan_rows(_, _, _, _, _, _)
scan_rows(i, df, lower, upper, req, lists) ==
    IF i > Len(df) THEN [raised |-> FALSE, anomalies |-> lists.anomalies,
                         confidence_bands |-> lists.confidence_bands]
    ELSE IF strftime_raises(df[i].ds)
    THEN [raised |-> TRUE, anomalies |-> lists.anomalies,
          confidence_bands |-> lists.confidence_bands]
    ELSE LET date_str == strftime(df[i].ds)
             actual_value == df[i].y.v
             lower_bound == lower[i]
             upper_bound == upper[i]
             defined == ~isna(lower_bound) /\ ~isna(upper_bound)
             bands == IF defined /\ req.showConfidenceBands
                      THEN Append(lists.confidence_bands,
                                  [date |-> date_str, lower |-> lower_bound, upper |-> upper_bound])
                      ELSE lists.confidence_bands
             found == IF defined /\ outside_bounds(actual_value, lower_bound, upper_bound)
                      THEN LET deviation == deviation_of(actual_value, lower_bound, upper_bound)
                           IN  Append(lists.anomalies,
                                      [date |-> date_str, value |-> actual_value,
                                       severity |-> determine_severity(deviation, req.sensitivity),
                                       expectedRange |-> [lower |-> lower_bound, upper |-> upper_bound],
                                       deviation |-> deviation])
                      ELSE lists.anomalies
         IN  scan_rows(i + 1, df, lower, upper, req,
                       [anomalies |-> found, confidence_bands |-> bands])

\* StatsForecastService.detect_anomalies; elapsed is the difference of its two
\* time.time() readings in ms
detect_anomalies(req, elapsed) ==
    LET checked == validate_data(req.data)
    IN  IF checked.raised
        THEN [frame |-> [EmptyFrame EXCEPT !.calls = << "validate_data" >>],
              outcome |-> Raised(checked)]
        ELSE
        LET df == prepare_dataframe(req.data)
            freq == infer_frequency(df)
            season_length == season_length_of(req, df, freq)
            confidence_level == SENSITIVITY_MAP(req.sensitivity)
            model_name == "AutoETS"
            values == [i \in 1..Len(df) |-> df[i].y.v]
            window == window_size(season_length, Len(values))
            wins == [i \in 1..Len(values) |-> rolling_window(values, window, i)]
            lower == [i \in 1..Len(values) |->
                        bound(rolling_mean(wins[i]), rolling_std(wins[i]), confidence_level, -1)]
            upper == [i \in 1..Len(values) |->
                        bound(rolling_mean(wins[i]), rolling_std(wins[i]), confidence_level, 1)]
            scanned == scan_rows(1, df, lower, upper, req,
                                 [anomalies |-> initial_anomalies, confidence_bands |-> << >>])
            locals == [calls |-> prepare_calls(req) \o << "rolling" >>,
                       df |-> df, freq |-> freq, season_length |-> Some(season_length),
                       model |-> Some([cls |-> "AutoETS", season_length |-> season_length]),
                       model_name |-> model_name, window |-> Some(window),
                       lower |-> lower, upper |-> upper, forecasts_df |-> None]
            total_points == Len(df)
            anomaly_count == Len(scanned.anomalies)
        IN  IF scanned.raised
            THEN [frame |-> locals, outcome |-> Raised(Raise("ValueError", "strftime"))]
            ELSE [frame |-> locals,
                  outcome |-> Return(
                    [anomalies |-> scanned.anomalies,
                     totalPoints |-> total_points,
                     anomalyCount |-> anomaly_count,
                     anomalyRate |-> IF total_points > 0 THEN << anomaly_count, total_points >>
                                     ELSE << 0, 1 >>,
                     confidenceBands |-> IF req.showConfidenceBands
                                         THEN Some(scanned.confidence_bands) ELSE None,
                     modelUsed |-> model_name,
                     sensitivity |-> req.sensitivity,
                     computationTimeMs |-> elapsed])]

\* the distance between two forecast dates for a frequency code
freq_step(freq) ==
    CASE freq = "T" -> 60
      [] freq = "H" -> 3600
      [] freq = "D" -> SecondsPerDay
      [] freq = "W" -> 7 * SecondsPerDay
      [] freq = "M" -> 30 * SecondsPerDay
      [] freq = "Q" -> 91 * SecondsPerDay
      [] OTHER -> 365 * SecondsPerDay

\* what StatsForecast(...).forecast(df, h, level) can do: raise (a ValueError, as
\* numpy / pandas / statsforecast do on bad frequencies or degenerate input, or
\* another exception), or return a frame whose point forecasts start at base and
\* which has interval columns for the levels in exposed
forecast_outcomes(req) ==
    { [raised |-> TRUE, exc |-> e, base |-> 0, exposed |-> {}] : e \in {"ValueError", "Exception"} }
    \cup { [raised |-> FALSE, exc |-> "", base |-> b, exposed |-> ex] :
             b \in {0, 1}, ex \in SUBSET Range(req.confidenceLevels) }

\* the frame sf.forecast returns: h rows after the last date, the point forecast
\* under the model's name, and -hi- / -lo- columns for the exposed levels
forecasts_frame(lib, df, freq, h, model) ==
    [alias |-> model.cls,
     rows |-> [k \in 1..h |-> [ds |-> Timestamp(df[Len(df)].ds.t + k * freq_step(freq)),
                               yhat |-> lib.base + k,
                               hi |-> [level \in lib.exposed |-> lib.base + k + level],
                               lo |-> [level \in lib.exposed |-> lib.base + k - level]]],
     levels |-> lib.exposed]

\* variant of extract_forecast_data: the columns of every requested level are
\* read without the test that they exist
extract_forecast_data_unguarded(forecasts_df, model_name, confidence_levels) ==
    IF \/ forecasts_df.rows # << >> /\ forecasts_df.alias # model_name
       \/ \E level \in Range(confidence_levels) : level \notin forecasts_df.levels
    THEN [raised |-> TRUE, exc |-> "KeyError", forecast_points |-> << >>,
          confidence_intervals |-> << >>]
    ELSE
    LET rows == forecasts_df.rows
        labels == { [side |-> sd, level |-> level] :
                      sd \in {"upper", "lower"}, level \in Range(confidence_levels) }
    IN  [raised |-> FALSE, exc |-> "",
         forecast_points |-> [k \in 1..Len(rows) |->
                                [date |-> strftime(rows[k].ds), value |-> rows[k].yhat]],
         confidence_intervals |->
            [lab \in labels |->
                [k \in 1..Len(rows) |->
                    IF lab.side = "upper" THEN rows[k].hi[lab.level]
                    ELSE rows[k].lo[lab.level]]]]

\* _extract_forecast_data
extract_forecast_data(forecasts_df, model_name, confidence_levels) ==
    IF forecasts_df.rows # << >> /\ forecasts_df.alias # model_name
    THEN [raised |-> TRUE, exc |-> "KeyError", forecast_points |-> << >>,
          confidence_intervals |-> << >>]
    ELSE
    LET rows == forecasts_df.rows
        forecast_points == [k \in 1..Len(rows) |->
                              [date |-> strftime(rows[k].ds), value |-> rows[k].yhat]]
        found == { level \in Range(confidence_levels) : level \in forecasts_df.levels }
        labels == { [side |-> sd, level |-> level] : sd \in {"upper", "lower"}, level \in found }
    IN  [raised |-> FALSE, exc |-> "", forecast_points |-> forecast_points,
         confidence_intervals |->
            [lab \in labels |->
                [k \in 1..Len(rows) |->
                    IF lab.side = "upper" THEN rows[k].hi[lab.level]
                    ELSE rows[k].lo[lab.level]]]]

\* StatsForecastService.generate_forecast; lib is what the library call does
generate_forecast(req, lib, elapsed) ==
    LET checked == validate_data(req.data)
    IN  IF checked.raised
        THEN [frame |-> [EmptyFrame EXCEPT !.calls = << "validate_data" >>],
              outcome |-> Raised(checked)]
        ELSE
        LET df == prepare_dataframe(req.data)
            freq == infer_frequency(df)
            season_length == season_length_of(req, df, freq)
            selected == select_model(req.model, season_length)
            locals == [EmptyFrame EXCEPT
                         !.calls = prepare_calls(req) \o << "_select_model", "forecast" >>,
                         !.df = df, !.freq = freq, !.season_length = Some(season_length),
                         !.model = Some(selected.model), !.model_name = selected.model_name]
        IN  IF lib.raised
            THEN [frame |-> locals, outcome |-> Raised(Raise(lib.exc, "forecast"))]
            ELSE
            LET forecasts_df == forecasts_frame(lib, df, freq, req.horizon, selected.model)
                extracted == extract_forecast_data(forecasts_df, selected.model_name,
                                                   req.confidenceLevels)
                done == [locals EXCEPT !.calls = @ \o << "_extract_forecast_data" >>,
                                       !.forecasts_df = Some(forecasts_df)]
            IN  IF extracted.raised
                THEN [frame |-> done,
                      outcome |-> Raised(Raise(extracted.exc, "_extract_forecast_data"))]
                ELSE [frame |-> done,
                      outcome |-> Return(
                        [forecast |-> extracted.forecast_points,
                         confidenceIntervals |-> extracted.confidence_intervals,
                         modelUsed |-> selected.model_name,
                         metrics |-> [aic |-> None, bic |-> None, mape |-> None,
                                      computation_time_ms |-> elapsed]])]

\* the routers' try / except: 200, or 400 for a ValueError, or 500
route_status(result) ==
    IF ~result.raised THEN 200
    ELSE IF result.exc = "ValueError" THEN 400
    ELSE 500

(***************************************************************************)
(* Inputs                                                                  *)
(***************************************************************************)
MinForecastPoints == 10     \* ForecastRequest.data: min_length

MinAnomalyPoints == 20      \* AnomalyRequest.data: min_length

MaxSeason == 3              \* largest caller-supplied season length

\* the date string of the instant t seconds after 2024-01-01
DateAt(t) ==
    IF t % SecondsPerDay = 0 THEN IsoDate(t \div SecondsPerDay)
    ELSE IsoDateTime(t \div SecondsPerDay, t % SecondsPerDay)

\* n points, gap seconds apart, with the given values
Regular(n, gap, vals) ==
    [i \in 1..n |-> [date |-> DateAt((i - 1) * gap), value |-> Float(vals[i])]]

Ramp(n) == [i \in 1..n |-> i % 3]

Reverse(s) == [i \in 1..Len(s) |-> s[Len(s) + 1 - i]]

BadValues == { [kind |-> k, v |-> 0] : k \in {"nan", "inf", "-inf", "str"} }

\* the series with one point's value replaced by a non-finite or non-numeric one,
\* one point's date replaced by text that is no date, or one point's date
\* respelled as the instant of another point
Invalidated(s) ==
    { [s EXCEPT ![k].value = bad] : k \in {1, Len(s)} \cap DOMAIN s, bad \in BadValues }
    \cup { [s EXCEPT ![k].date = GarbageDate] : k \in {1, Len(s)} \cap DOMAIN s }
    \cup { [s EXCEPT ![k].date = IsoDateTime(s[1].date.day, s[1].date.sec)] :
             k \in {Len(s)} \cap (DOMAIN s \ {1}) }

\* the series with one point's date replaced by the empty string
WithEmptyDate(s) == { [s EXCEPT ![k].date = EmptyDate] : k \in {1, Len(s)} \cap DOMAIN s }

\* one gap per frequency class
PipelineGaps ==
    { 1800, 3600, SecondsPerDay, 7 * SecondsPerDay, 30 * SecondsPerDay,
      91 * SecondsPerDay, 365 * SecondsPerDay }

WellFormed(n) ==
    { Regular(n, g, Ramp(n)) : g \in PipelineGaps }
    \cup { Reverse(Regular(n, SecondsPerDay, Ramp(n))) }

SeasonChoices == { None } \cup { Some(k) : k \in 2..MaxSeason }

Sensitivities == { "low", "medium", "high" }

\* the lengths a caller of the service methods may pass, and the one the router passes
DirectLens == 0..3

ForecastData(n) == WellFormed(n) \cup Invalidated(Regular(n, SecondsPerDay, Ramp(n)))

AnomalyData(n) ==
    ForecastData(n)
    \cup (IF n >= 3 THEN WithEmptyDate(Regular(n, SecondsPerDay, Ramp(n))) ELSE {})

ForecastRequests ==
    { [endpoint |-> "forecast", via |-> via, data |-> data, horizon |-> h, model |-> m,
       seasonLength |-> sl, confidenceLevels |-> lv, sensitivity |-> "medium",
       showConfidenceBands |-> TRUE] :
        via \in {"router", "direct"},
        data \in UNION { ForecastData(n) : n \in DirectLens \cup {MinForecastPoints} },
        h \in 1..MaxH,
        m \in {"auto", "arima", "ets", "theta", "prophet"},
        sl \in SeasonChoices,
        lv \in { << 95 >>, << 90, 99 >> } }

AnomalyRequests ==
    { [endpoint |-> "detect-anomalies", via |-> via, data |-> data, horizon |-> 1,
       model |-> "ets", seasonLength |-> sl, confidenceLevels |-> << >>,
       sensitivity |-> sens, showConfidenceBands |-> bands] :
        via \in {"router", "direct"},
        data \in UNION { AnomalyData(n) : n \in DirectLens \cup {MinAnomalyPoints} },
        sl \in SeasonChoices,
        sens \in Sensitivities,
        bands \in BOOLEAN }

\* what the transport layer lets through: the pydantic field constraints
Admitted(req) ==
    req.via = "router" =>
        /\ Len(req.data) >= (IF req.endpoint = "forecast" THEN MinForecastPoints
                             ELSE MinAnomalyPoints)
        /\ req.model \in {"auto", "arima", "ets", "theta"}
        /\ \A i \in 1..Len(req.data) : req.data[i].value.kind # "str"

(***************************************************************************)
(* The service behind its routers                                          *)
(***************************************************************************)
Init ==
    /\ request \in { r \in ForecastRequests \cup AnomalyRequests : Admitted(r) }
    /\ pc = "service"
    /\ frame = EmptyFrame
    /\ outcome = NoOutcome
    /\ http = 0
    /\ run = 1
    /\ prev = NoOutcome

\* statsforecast_service.generate_forecast(request)
GenerateForecast ==
    /\ pc = "service"
    /\ request.endpoint = "forecast"
    /\ \E lib \in forecast_outcomes(request), elapsed \in 0..MaxElapsed :
         LET r == generate_forecast(request, lib, elapsed)
         IN  /\ frame' = r.frame
             /\ outcome' = r.outcome
    /\ pc' = IF request.via = "router" THEN "route" ELSE "done"
    /\ UNCHANGED <<request, http, run, prev>>

\* statsforecast_service.detect_anomalies(request)
DetectAnomalies ==
    /\ pc = "service"
    /\ request.endpoint = "detect-anomalies"
    /\ \E elapsed \in 0..MaxElapsed :
         LET r == detect_anomalies(request, elapsed)
         IN  /\ frame' = r.frame
             /\ outcome' = r.outcome
    /\ pc' = IF request.via = "router" THEN "route" ELSE "done"
    /\ UNCHANGED <<request, http, run, prev>>

\* routers/forecast.py: the try / except around the service call
ForecastRoute ==
    /\ pc = "route"
    /\ request.endpoint = "forecast"
    /\ http' = route_status(outcome)
    /\ pc' = "done"
    /\ UNCHANGED <<request, frame, outcome, run, prev>>

\* routers/anomaly.py: the try / except around the service call
AnomalyRoute ==
    /\ pc = "route"
    /\ request.endpoint = "detect-anomalies"
    /\ http' = route_status(outcome)
    /\ pc' = "done"
    /\ UNCHANGED <<request, frame, outcome, run, prev>>

Next == GenerateForecast \/ ForecastRoute \/ DetectAnomalies \/ AnomalyRoute

Spec == Init /\ [][Next]_vars

(***************************************************************************)
(* detect_anomalies called directly, twice with the same request           *)
(***************************************************************************)
\* all series of 0s and 1s of a given length
RECURSIVE BinarySeqs(_)
BinarySeqs(n) ==
    IF n = 0 THEN { << >> }
    ELSE { Append(s, x) : s \in BinarySeqs(n - 1), x \in {0, 1} }

\* n values b with the single value b + 1 at position k
Spike(n, k, b) == [i \in 1..n |-> IF i = k THEN b + 1 ELSE b]

\* n values 0 with the value 1 at the third place from either end
TwoSpikes(n) == [i \in 1..n |-> IF i = 3 \/ i = n - 2 THEN 1 ELSE 0]

Constant(n, c) == [i \in 1..n |-> c]

\* 30 values, all 100 except the 15th, which is 200
SpikeAtFifteen == [i \in 1..30 |-> IF i = 15 THEN 200 ELSE 100]

AnomalyValues ==
    UNION { BinarySeqs(n) : n \in 2..MaxLen }
    \cup { Spike(n, k, 0) : n \in (MaxLen + 1)..MaxLong, k \in 1..MaxLong }
    \cup { Constant(n, 50) : n \in 2..MaxConst }
    \cup { SpikeAtFifteen, TwoSpikes(MaxLong) }

DirectAnomalyRequests ==
    { [endpoint |-> "detect-anomalies", via |-> "direct",
       data |-> Regular(Len(vals), gap, vals), horizon |-> 1,
       model |-> "ets", seasonLength |-> sl, confidenceLevels |-> << >>,
       sensitivity |-> sens, showConfidenceBands |-> bands] :
        vals \in AnomalyValues,
        gap \in { SecondsPerDay, 365 * SecondsPerDay },
        sl \in SeasonChoices,
        sens \in Sensitivities,
        bands \in BOOLEAN }

\* daily series of 2 and of MaxLong points, sent latest point first
ReversedAnomalyRequests ==
    { [r EXCEPT !.data = Reverse(r.data)] :
        r \in { q \in DirectAnomalyRequests :
                  Len(q.data) \in {2, MaxLong} /\ q.data[2].date.day = 1 } }

InitAnomaly ==
    /\ request \in { r \in DirectAnomalyRequests :
                       r.data[2].date.day > 1 => r.seasonLength = None }
                   \cup ReversedAnomalyRequests
    /\ pc = "service"
    /\ frame = EmptyFrame
    /\ outcome = NoOutcome
    /\ http = 0
    /\ run = 1
    /\ prev = NoOutcome

\* the caller keeps the first result and calls again with the same request
Resubmit ==
    /\ pc = "done"
    /\ run = 1
    /\ prev' = outcome
    /\ run' = 2
    /\ pc' = "service"
    /\ frame' = EmptyFrame
    /\ outcome' = NoOutcome
    /\ UNCHANGED <<request, http>>

NextAnomaly == DetectAnomalies \/ Resubmit

SpecAnomaly == InitAnomaly /\ [][NextAnomaly]_vars

(***************************************************************************)
(* validate_data called on its own                                         *)
(***************************************************************************)
CandidateDates == { IsoDate(0), IsoDateTime(0, 0), IsoDate(1), EmptyDate, GarbageDate }

CandidateValues == { Float(1) } \cup BadValues

CandidatePoints == { [date |-> d, value |-> v] : d \in CandidateDates, v \in CandidateValues }

InitValidate ==
    /\ request \in { [endpoint |-> "validate_data", data |-> data] :
                       data \in SeqsUpTo(CandidatePoints, MaxValLen) }
    /\ pc = "validate"
    /\ frame = EmptyFrame
    /\ outcome = NoOutcome
    /\ http = 0
    /\ run = 1
    /\ prev = NoOutcome

\* validate_data(data)
ValidateData ==
    /\ pc = "validate"
    /\ outcome' = LET checked == validate_data(request.data)
                  IN  IF checked.raised THEN Raised(checked) ELSE NoOutcome
    /\ pc' = "done"
    /\ UNCHANGED <<request, frame, http, run, prev>>

SpecValidate == InitValidate /\ [][ValidateData]_vars

(***************************************************************************)
(* infer_frequency called on its own                                       *)
(***************************************************************************)
\* gaps on both sides of every threshold of the classification
FrequencyGaps ==
    { 0, 1, 3599, 3600, 3601, SecondsPerDay - 1, SecondsPerDay,
      2 * SecondsPerDay - 1, 2 * SecondsPerDay, 9 * SecondsPerDay - 1, 9 * SecondsPerDay,
      33 * SecondsPerDay - 1, 33 * SecondsPerDay, 101 * SecondsPerDay - 1,
      101 * SecondsPerDay, 400 * SecondsPerDay }

RECURSIVE FrameOfGaps(_)
\* the sorted frame whose first row is at 0 and whose consecutive gaps are given
FrameOfGaps(gaps) ==
    IF gaps = << >> THEN << [ds |-> Timestamp(0), y |-> Float(0)] >>
    ELSE LET front == FrameOfGaps(SubSeq(gaps, 1, Len(gaps) - 1))
         IN  Append(front, [ds |-> Timestamp(front[Len(front)].ds.t + gaps[Len(gaps)]),
                            y |-> Float(0)])

InitFreq ==
    /\ request \in { [endpoint |-> "infer_frequency", df |-> df] :
                       df \in { << >> } \cup { FrameOfGaps(g) : g \in SeqsUpTo(FrequencyGaps, MaxGaps) } }
    /\ pc = "infer"
    /\ frame = EmptyFrame
    /\ outcome = NoOutcome
    /\ http = 0
    /\ run = 1
    /\ prev = NoOutcome

\* infer_frequency(df)
InferFrequency ==
    /\ pc = "infer"
    /\ outcome' = Return(infer_frequency(request.df))
    /\ pc' = "done"
    /\ UNCHANGED <<request, frame, http, run, prev>>

SpecFreq == InitFreq /\ [][InferFrequency]_vars

(***************************************************************************)
(* _determine_severity called on its own, on two arguments                 *)
(***************************************************************************)
\* the deviation d / 4
Quarters(d) == [sq_num |-> d * d, sq_den |-> 16, level |-> 0]

InitSeverity ==
    /\ request \in { [endpoint |-> "_determine_severity", quarters |-> q, sensitivity |-> sens] :
                       q \in (0..MaxDev) \X (0..MaxDev), sens \in Sensitivities \X Sensitivities }
    /\ pc = "severity"
    /\ frame = EmptyFrame
    /\ outcome = NoOutcome
    /\ http = 0
    /\ run = 1
    /\ prev = NoOutcome

\* _determine_severity(deviation, sensitivity), for each of the two arguments
DetermineSeverity ==
    /\ pc = "severity"
    /\ outcome' = Return([i \in 1..2 |->
                            determine_severity(Quarters(request.quarters[i]),
                                               request.sensitivity[i])])
    /\ pc' = "done"
    /\ UNCHANGED <<request, frame, http, run, prev>>

SpecSeverity == InitSeverity /\ [][DetermineSeverity]_vars

(***************************************************************************)
(* Claims                                                                  *)
(***************************************************************************)
\* the text names a calendar date
ParsesAsCalendarDate(date) == date.fmt \in {"iso_date", "iso_datetime"}

\* the instant a date text names
ParsedInstant(date) == date.day * SecondsPerDay + date.sec

\* at least 2 points, all values finite numbers, all dates calendar dates, no two alike
Acceptable(data) ==
    /\ Len(data) >= 2
    /\ \A i \in 1..Len(data) : data[i].value.kind = "float"
    /\ \A i \in 1..Len(data) : ParsesAsCalendarDate(data[i].date)
    /\ \A i, j \in 1..Len(data) :
          i # j => ParsedInstant(data[i].date) # ParsedInstant(data[j].date)

\* C1: validate_data returns without error exactly for the series with at least 2
\* points, only finite numeric values, only dates that parse as calendar dates and
\* no two equal parsed dates, and raises ValueError for every other series.
C1_AcceptsIffAcceptable ==
    (pc = "done" /\ request.endpoint = "validate_data") =>
        /\ ~outcome.raised <=> Acceptable(request.data)
        /\ outcome.raised => outcome.exc = "ValueError"

\* C2: validation comes first (when it fails nothing else ran and there is no
\* result), and every failure after validation is a computation error that the
\* caller can tell from a validation error: not a ValueError, not a 400.
C2_ValidationFirstErrorsDistinct ==
    (pc # "service" /\ request.endpoint \in {"forecast", "detect-anomalies"}) =>
        /\ frame.calls # << >> /\ frame.calls[1] = "validate_data"
        /\ validate_data(request.data).raised =>
              /\ frame = [EmptyFrame EXCEPT !.calls = << "validate_data" >>]
              /\ outcome.raised /\ outcome.response = None
        /\ (outcome.raised /\ ~validate_data(request.data).raised
              /\ pc = "done" /\ request.via = "router") => http = 500

\* the half-second median of the gaps, by rank: the sum of the lower and the
\* upper middle gap
RankedMedian2(df) ==
    LET n == Len(df) - 1
        gap(k) == df[k + 1].ds.t - df[k].ds.t
        AtRank(r) == CHOOSE x \in { gap(k) : k \in 1..n } :
                        /\ Cardinality({ k \in 1..n : gap(k) < x }) <= r
                        /\ Cardinality({ k \in 1..n : gap(k) <= x }) > r
    IN  AtRank((n - 1) \div 2) + AtRank(n \div 2)

\* the classes the claim gives a median gap (in half seconds)
ClaimedClasses(m2) ==
    LET days == m2 \div (2 * SecondsPerDay)
    IN  { c \in {"T", "H", "D", "W", "M", "Q", "Y"} :
            \/ c = "T" /\ m2 < 2 * 3600
            \/ c = "H" /\ 2 * 3600 <= m2 /\ m2 < 2 * SecondsPerDay
            \/ c = "D" /\ m2 >= 2 * SecondsPerDay /\ days \in 0..1
            \/ c = "W" /\ m2 >= 2 * SecondsPerDay /\ days \in 2..8
            \/ c = "M" /\ m2 >= 2 * SecondsPerDay /\ days \in 9..32
            \/ c = "Q" /\ m2 >= 2 * SecondsPerDay /\ days \in 33..100
            \/ c = "Y" /\ m2 >= 2 * SecondsPerDay /\ days > 100 }

\* C3: infer_frequency returns daily for fewer than 2 rows, and otherwise the one
\* class of the median gap: under 3600 s sub-hourly (T), under 86400 s hourly (H),
\* then by whole days 0-1 D, 2-8 W, 9-32 M, 33-100 Q, over 100 Y.
C3_FrequencyClassOfMedian ==
    (pc = "done" /\ request.endpoint = "infer_frequency") =>
        IF Len(request.df) < 2 THEN outcome.response = Some("D")
        ELSE ClaimedClasses(RankedMedian2(request.df)) = { outcome.response[1] }

C3_Witness ==
    /\ pc = "done" /\ request.endpoint = "infer_frequency"
    /\ Len(request.df) = 3
    /\ request.df[2].ds.t = 9 * SecondsPerDay - 1
    /\ request.df[3].ds.t = 18 * SecondsPerDay - 1
    /\ outcome.response = Some("W")

\* the default table as the claim states it
ClaimedDefault(freq) ==
    CASE freq = "H" -> 24 [] freq = "D" -> 7 [] freq = "W" -> 52
      [] freq = "M" -> 12 [] freq = "Q" -> 4 [] freq = "Y" -> 1 [] OTHER -> 7

\* C4: in both methods the season length used is the caller's value when there is
\* one, and the table was then not consulted; otherwise it is the table's value
\* for the inferred frequency. The model (and the rolling window) is built from it.
C4_SeasonLengthUsed ==
    frame.season_length # None =>
        LET used == frame.season_length[1]
            consulted == "auto_detect_season_length" \in Range(frame.calls)
        IN  /\ request.seasonLength # None =>
                  used = request.seasonLength[1] /\ ~consulted
            /\ request.seasonLength = None =>
                  used = ClaimedDefault(frame.freq) /\ consulted
            /\ frame.model[1].season_length = used
            /\ request.endpoint = "detect-anomalies" =>
                  frame.window = Some(window_size(used, Len(request.data)))

C4_Witness ==
    /\ pc = "done"
    /\ request.endpoint = "detect-anomalies"
    /\ request.seasonLength = None
    /\ frame.freq = "W"
    /\ frame.season_length = Some(52)
    /\ ~outcome.raised

\* C5: a sub-hourly series with no caller-supplied season length gets the hourly
\* default, 24.
C5_SubHourlyGetsHourlyDefault ==
    (frame.season_length # None /\ frame.freq = "T" /\ request.seasonLength = None) =>
        /\ frame.season_length = Some(24)
        /\ frame.season_length = Some(auto_detect_season_length(frame.df, "H"))

\* the model name the claim gives a selector
ClaimedModel(selector) ==
    CASE selector \in {"auto", "arima"} -> "AutoARIMA"
      [] selector = "ets" -> "AutoETS"
      [] selector = "theta" -> "AutoTheta"
      [] OTHER -> "AutoETS"

\* C6: every selector dispatches a model: auto and arima AutoARIMA, ets AutoETS,
\* theta AutoTheta, anything else AutoETS; the model's only parameter is the
\* season length, and modelUsed of a forecast result names the dispatched model.
C6_ModelDispatch ==
    (request.endpoint = "forecast" /\ pc # "service" /\ ~validate_data(request.data).raised) =>
        /\ frame.model # None
        /\ frame.model[1] = [cls |-> ClaimedModel(request.model),
                             season_length |-> frame.season_length[1]]
        /\ frame.model_name = ClaimedModel(request.model)
        /\ ~outcome.raised => outcome.response[1].modelUsed = frame.model[1].cls
        /\ outcome.raised => outcome.origin = "forecast"

C6_Witness ==
    /\ request.endpoint = "forecast" /\ pc = "done"
    /\ request.model = "prophet"
    /\ ~outcome.raised
    /\ outcome.response[1].modelUsed = "AutoETS"
    /\ Len(outcome.response[1].forecast) = request.horizon

\* the rows of the frame, from row i on, that the claim says are anomalies
RECURSIVE ClaimedAnomalyRows(_)
ClaimedAnomalyRows(i) ==
    IF i > Len(frame.df) THEN << >>
    ELSE LET value == frame.df[i].y.v
             flagged == /\ ~frame.lower[i].isna
                        /\ ~frame.upper[i].isna
                        /\ \/ bound_cmp(value, frame.lower[i]) = -1
                           \/ bound_cmp(value, frame.upper[i]) = 1
         IN  (IF flagged THEN << i >> ELSE << >>) \o ClaimedAnomalyRows(i + 1)

\* the row a reported anomaly came from is among rows
ReportedAmong(rows) ==
    \A k \in 1..Len(outcome.response[1].anomalies) :
        \E i \in rows : outcome.response[1].anomalies[k].date = strftime(frame.df[i].ds)

\* C7: the anomalies of a result are, in row order, exactly the points with both
\* bounds defined whose value is strictly below the lower or strictly above the
\* upper bound; a point on a bound, or with undefined bounds, is not among them.
C7_FlaggedIffStrictlyOutside ==
    (pc = "done" /\ request.endpoint = "detect-anomalies" /\ ~outcome.raised) =>
        LET rows == ClaimedAnomalyRows(1)
            anomalies == outcome.response[1].anomalies
        IN  /\ Len(anomalies) = Len(rows)
            /\ \A k \in 1..Len(rows) :
                  /\ anomalies[k].date = strftime(frame.df[rows[k]].ds)
                  /\ anomalies[k].value = frame.df[rows[k]].y.v
                  /\ anomalies[k].expectedRange =
                        [lower |-> frame.lower[rows[k]], upper |-> frame.upper[rows[k]]]
            /\ ReportedAmong({ i \in 1..Len(frame.df) :
                                 /\ ~frame.lower[i].isna
                                 /\ bound_cmp(frame.df[i].y.v, frame.lower[i]) # 0
                                 /\ bound_cmp(frame.df[i].y.v, frame.upper[i]) # 0 })

\* a result with an anomaly above its upper bound, an unflagged point exactly on
\* its (zero-width) bounds and an unflagged point strictly inside its bounds
C7_Witness ==
    /\ pc = "done" /\ request.endpoint = "detect-anomalies" /\ ~outcome.raised
    /\ \E k \in 1..Len(outcome.response[1].anomalies) :
          LET a == outcome.response[1].anomalies[k]
          IN  bound_cmp(a.value, a.expectedRange.upper) = 1
    /\ \E i \in 1..Len(frame.df) :
          /\ bound_cmp(frame.df[i].y.v, frame.lower[i]) = 0
          /\ bound_cmp(frame.df[i].y.v, frame.upper[i]) = 0
    /\ \E i \in 1..Len(frame.df) :
          /\ bound_cmp(frame.df[i].y.v, frame.lower[i]) = 1
          /\ bound_cmp(frame.df[i].y.v, frame.upper[i]) = -1

\* the severity the claim gives a deviation of q quarters
ClaimedSeverity(q, sensitivity) ==
    CASE sensitivity = "low" ->
            (IF q > 12 THEN "high" ELSE IF q > 8 THEN "medium" ELSE "low")
      [] sensitivity = "medium" ->
            (IF q > 8 THEN "high" ELSE IF q > 6 THEN "medium" ELSE "low")
      [] sensitivity = "high" ->
            (IF q > 6 THEN "high" ELSE IF q > 4 THEN "medium" ELSE "low")

Rank(level) == CASE level = "low" -> 1 [] level = "medium" -> 2 [] level = "high" -> 3

\* C8: severity is the step function of the claim (strict comparisons against
\* 3 and 2, 2 and 1.5, 1.5 and 1 for low, medium, high sensitivity); a larger
\* deviation never has a lower severity at a fixed sensitivity, and a lower
\* sensitivity never gives a higher severity at a fixed deviation.
C8_SeverityStepFunction ==
    (pc = "done" /\ request.endpoint = "_determine_severity") =>
        LET q == request.quarters
            sens == request.sensitivity
            sev == outcome.response[1]
        IN  /\ \A i \in 1..2 : sev[i] = ClaimedSeverity(q[i], sens[i])
            /\ (sens[1] = sens[2] /\ q[1] <= q[2]) => Rank(sev[1]) <= Rank(sev[2])
            /\ (q[1] = q[2] /\ Rank(sens[1]) <= Rank(sens[2])) => Rank(sev[1]) <= Rank(sev[2])

\* deviations exactly on the thresholds 1.5 and 2 of medium sensitivity
C8_Witness ==
    /\ pc = "done" /\ request.endpoint = "_determine_severity"
    /\ request.quarters = << 6, 8 >>
    /\ request.sensitivity = << "medium", "medium" >>
    /\ outcome.response = Some(<< "low", "medium" >>)

Untimed(result) ==
    IF result.response = None THEN result
    ELSE [result EXCEPT !.response = Some([result.response[1] EXCEPT !.computationTimeMs = 0])]

WindowValues(values, w, i) ==
    { values[k] : k \in Max2(1, i - (w \div 2))..Min2(Len(values), i + ((w - 1) \div 2)) }

\* C10: a constant series has no anomalies at any sensitivity and season length,
\* a point whose rolling window holds only its own value is never flagged, and
\* the zero-width range raises no error.
C10_ConstantWindowNeverFlagged ==
    (pc = "done" /\ request.endpoint = "detect-anomalies"
        /\ ~validate_data(request.data).raised
        /\ \A i \in 1..Len(request.data) : ~to_datetime(request.data[i].date).nat) =>
        LET values == [i \in 1..Len(frame.df) |-> frame.df[i].y.v]
            w == frame.window[1]
            own == { i \in 1..Len(values) : WindowValues(values, w, i) = { values[i] } }
        IN  /\ ~outcome.raised
            /\ ReportedAmong((1..Len(values)) \ own)
            /\ Cardinality(Range(values)) = 1 =>
                  /\ outcome.response[1].anomalies = << >>
                  /\ outcome.response[1].anomalyCount = 0

\* 25 points, all 50
C10_Witness ==
    /\ pc = "done" /\ request.endpoint = "detect-anomalies"
    /\ Len(request.data) = 25
    /\ \A i \in 1..25 : request.data[i].value = Float(50)
    /\ request.sensitivity = "high"
    /\ ~outcome.raised
    /\ outcome.response[1].anomalyCount = 0
    /\ outcome.response[1].totalPoints = 25

\* C11: for 30 daily points, all 100 except 200 on day 15, at medium sensitivity
\* and the default season length, the result has exactly one anomaly, the point
\* of day 15, with severity 'high' or 'medium'; none of the other 29 points is
\* reported, whether its window holds the spike or is truncated at an edge.
C11_SingleSpikeScenario ==
    (pc = "done" /\ request.endpoint = "detect-anomalies"
        /\ Len(request.data) = 30
        /\ (\A i \in 1..30 : request.data[i] =
                [date |-> IsoDate(i - 1), value |-> Float(SpikeAtFifteen[i])])
        /\ request.sensitivity = "medium"
        /\ request.seasonLength = None) =>
        /\ ~outcome.raised
        /\ outcome.response[1].totalPoints = 30
        /\ outcome.response[1].anomalyCount = 1
        /\ Len(outcome.response[1].anomalies) = 1
        /\ outcome.response[1].anomalies[1].date = strftime(to_datetime(IsoDate(14)))
        /\ outcome.response[1].anomalies[1].value = 200
        /\ outcome.response[1].anomalies[1].severity \in {"high", "medium"}

\* the scenario's result: a window of 14 rows, truncated to 7 rows at the first
\* row and holding the spike at row 9, and one anomaly of severity 'medium'
C11_Witness ==
    /\ pc = "done" /\ request.endpoint = "detect-anomalies"
    /\ Len(request.data) = 30
    /\ \A i \in 1..30 : request.data[i] =
            [date |-> IsoDate(i - 1), value |-> Float(SpikeAtFifteen[i])]
    /\ request.sensitivity = "medium"
    /\ request.seasonLength = None
    /\ frame.window = Some(14)
    /\ frame.upper[1].mean.den = 7
    /\ frame.upper[9].mean.den = 14 /\ frame.upper[9].mean.num = 1500
    /\ ~outcome.raised
    /\ outcome.response[1].anomalyCount = 1
    /\ outcome.response[1].anomalies[1].severity = "medium"

\* C12: when sf.forecast returns a frame, extraction does not raise; the
\* forecast has one point per row of the frame, in row order; for each requested
\* level the frame has interval columns for, the mapping has both 'upper_L' and
\* 'lower_L', each the column's entries in row order; for a requested level the
\* frame has no columns for, the mapping has neither label; no label is of a
\* level that was not requested, and no label is without its counterpart.
C12_ExtractionAlignedAndTolerant ==
    (pc = "done" /\ request.endpoint = "forecast" /\ frame.forecasts_df # None) =>
        /\ ~outcome.raised
        /\ LET rows == frame.forecasts_df[1].rows
               exposed == frame.forecasts_df[1].levels
               requested == Range(request.confidenceLevels)
               points == outcome.response[1].forecast
               mapping == outcome.response[1].confidenceIntervals
               upper(level) == [side |-> "upper", level |-> level]
               lower(level) == [side |-> "lower", level |-> level]
           IN  /\ Len(points) = Len(rows)
               /\ \A k \in 1..Len(rows) :
                     /\ points[k].date = strftime(rows[k].ds)
                     /\ points[k].value = rows[k].yhat
               /\ \A level \in requested :
                     IF level \in exposed
                     THEN /\ upper(level) \in DOMAIN mapping
                          /\ lower(level) \in DOMAIN mapping
                          /\ Len(mapping[upper(level)]) = Len(rows)
                          /\ Len(mapping[lower(level)]) = Len(rows)
                          /\ \A k \in 1..Len(rows) :
                                /\ mapping[upper(level)][k] = rows[k].hi[level]
                                /\ mapping[lower(level)][k] = rows[k].lo[level]
                     ELSE /\ upper(level) \notin DOMAIN mapping
                          /\ lower(level) \notin DOMAIN mapping
               /\ \A lab \in DOMAIN mapping :
                     /\ lab.level \in requested
                     /\ upper(lab.level) \in DOMAIN mapping
                     /\ lower(lab.level) \in DOMAIN mapping

\* a forecast of two rows for levels 90 and 99 from a frame with columns for 90
\* only: the mapping has the two labels of 90 and none of 99
C12_Witness ==
    /\ pc = "done" /\ request.endpoint = "forecast" /\ frame.forecasts_df # None
    /\ request.confidenceLevels = << 90, 99 >>
    /\ frame.forecasts_df[1].levels = {90}
    /\ Len(frame.forecasts_df[1].rows) = 2
    /\ ~outcome.raised
    /\ Len(outcome.response[1].forecast) = 2
    /\ DOMAIN outcome.response[1].confidenceIntervals =
          { [side |-> "upper", level |-> 90], [side |-> "lower", level |-> 90] }
    /\ outcome.response[1].confidenceIntervals[[side |-> "upper", level |-> 90]][1]
          # outcome.response[1].confidenceIntervals[[side |-> "upper", level |-> 90]][2]

\* C13: the window detect_anomalies rolls over is W = min(2 S, N) for season
\* length S and N rows, or N when that minimum is below 3; so 1 <= W <= N, and
\* W >= 3 when N >= 3; a yearly series with the default S = 1 has W = N. No row's
\* statistics are over more than W rows, and some row's are over exactly W.
C13_WindowSize ==
    (pc = "done" /\ request.endpoint = "detect-anomalies" /\ frame.window # None) =>
        LET S == frame.season_length[1]
            N == Len(frame.df)
            W == frame.window[1]
            least == IF 2 * S < N THEN 2 * S ELSE N
        IN  /\ W = (IF least < 3 THEN N ELSE least)
            /\ (S >= 1 /\ N >= 2) =>
                  /\ 1 <= W /\ W <= N
                  /\ N >= 3 => W >= 3
            /\ (frame.freq = "Y" /\ request.seasonLength = None) => (S = 1 /\ W = N)
            /\ \A i \in 1..N : frame.upper[i].mean.den <= W
            /\ \E i \in 1..N : frame.upper[i].mean.den = W

\* a yearly series of at least 3 points with the default season length 1: the
\* window is the whole series
C13_Witness ==
    /\ pc = "done" /\ request.endpoint = "detect-anomalies" /\ frame.window # None
    /\ frame.freq = "Y" /\ request.seasonLength = None
    /\ frame.season_length = Some(1)
    /\ Len(frame.df) >= 3
    /\ frame.window = Some(Len(frame.df))
    /\ ~outcome.raised

\* the rows of the frame, from row i on, whose rolling standard deviation is defined
RECURSIVE ClaimedBandRows(_)
ClaimedBandRows(i) ==
    IF i > Len(frame.df) THEN << >>
    ELSE (IF frame.upper[i].std.isna THEN << >> ELSE << i >>) \o ClaimedBandRows(i + 1)

\* the request with the confidence-band flag inverted
OtherBandFlag(req) == [req EXCEPT !.showConfidenceBands = ~@]

\* C14: with bands requested the result has, in ascending date order, one band
\* for each input point whose rolling standard deviation is defined and none for
\* the others; with at least 20 points every row's window holds at least 2 rows,
\* so there is one band per input point. With bands not requested the band list
\* is absent. The anomalies are the same with and without bands.
C14_BandsPerDefinedPoint ==
    (pc = "done" /\ request.endpoint = "detect-anomalies" /\ ~outcome.raised) =>
        LET rows == ClaimedBandRows(1)
            N == Len(request.data)
            result == outcome.response[1]
            other == detect_anomalies(OtherBandFlag(request), 0).outcome
        IN  /\ request.showConfidenceBands =>
                  /\ result.confidenceBands # None
                  /\ LET bands == result.confidenceBands[1]
                     IN  /\ Len(bands) = Len(rows)
                         /\ \A k \in 1..Len(rows) :
                               bands[k] = [date |-> strftime(frame.df[rows[k]].ds),
                                           lower |-> frame.lower[rows[k]],
                                           upper |-> frame.upper[rows[k]]]
                         /\ \A k \in 1..Len(bands), j \in 1..Len(bands) :
                               k < j => bands[k].date.day < bands[j].date.day
                         /\ \A k \in 1..Len(bands) : \E j \in 1..N :
                               bands[k].date = strftime(to_datetime(request.data[j].date))
                         /\ N >= MinAnomalyPoints => Len(bands) = N
            /\ N >= MinAnomalyPoints =>
                  \A i \in 1..Len(frame.df) :
                      frame.upper[i].mean.den >= 2 /\ ~frame.upper[i].std.isna
            /\ ~request.showConfidenceBands => result.confidenceBands = None
            /\ ~other.raised
            /\ other.response[1].anomalies = result.anomalies

\* two points sent latest first, with bands requested: the earlier point's window
\* holds one row, its standard deviation is undefined, and the only band is the
\* later point's
C14_Witness ==
    /\ pc = "done" /\ request.endpoint = "detect-anomalies" /\ ~outcome.raised
    /\ request.showConfidenceBands
    /\ Len(request.data) = 2
    /\ request.data[1].date.day > request.data[2].date.day
    /\ frame.upper[1].std.isna /\ ~frame.upper[2].std.isna
    /\ Len(outcome.response[1].confidenceBands[1]) = 1
    /\ outcome.response[1].confidenceBands[1][1].date =
          strftime(to_datetime(request.data[1].date))

====
